---- MODULE Spec2Model ----
(***************************************************************************)
(* The resilient orchestration core of the tutoring backend:               *)
(*   utils/circuit_breaker.py   CircuitBreaker (state machine, no lock)    *)
(*   services/gemini.py         generator adapter: breaker-wrapped         *)
(*                              _make_request_with_retry (cache, retries)  *)
(*   services/wolfram.py        computational adapter (no breaker)         *)
(*   services/ai_coordinator.py generate_hybrid_response (routing, merge)  *)
(*   services/cache.py          the AI-response entries of the cache       *)
(*                                                                         *)
(* Spec           coordinator requests, one at a time and back to back     *)
(*                (the async endpoints run the blocking service code to    *)
(*                completion); the clock stands still, so a breaker that   *)
(*                opens stays open.                                        *)
(* SpecGenerator  cached generator requests, one at a time, with the       *)
(*                clock moving: the breaker's whole life cycle and the     *)
(*                cache's expiry.                                          *)
(* SpecConcurrent several threads calling the breaker-wrapped generator    *)
(*                request at once; the breaker's reads and writes          *)
(*                interleave, since the class takes no lock.               *)
(***************************************************************************)
EXTENDS Naturals, Integers, Sequences, FiniteSets, TLC

(* ------------------------------------------------------------------ *)
(* Program constants                                                   *)
(* ------------------------------------------------------------------ *)
failure_threshold == 5
recovery_timeout == 60
max_retries == 3
AI_RESPONSE_TTL == 7200
DEFAULT_TTL == 3600
cache_ttl == 86400

(* ------------------------------------------------------------------ *)
(* Bounds of the model                                                 *)
(* ------------------------------------------------------------------ *)
NumCallers == 2
MaxTicks == 2
MaxPods == 2
MaxPodImages == 2
MaxMessages == 3

Threads == 1..NumCallers
SerialCaller == CHOOSE t \in Threads : \A u \in Threads : t <= u

\* Clock steps: half a recovery window, a whole one, and a cache lifetime.
TickSteps == {recovery_timeout \div 2, recovery_timeout, AI_RESPONSE_TTL}

(* ------------------------------------------------------------------ *)
(* Values                                                              *)
(* ------------------------------------------------------------------ *)
\* Optional[x]: None is the empty tuple, a value x is <<x>>.
None == <<>>
Some(x) == <<x>>
IsSome(o) == o # <<>>
Get(o) == o[1]

\* A text is a sequence of characters; falsy (Python) when empty.
Whitespace == {" "}
Truthy(s) == s # <<>>

RECURSIVE LStrip(_)
LStrip(s) ==
    IF s = <<>> THEN s
    ELSE IF Head(s) \in Whitespace THEN LStrip(Tail(s)) ELSE s

RECURSIVE RStrip(_)
RStrip(s) ==
    IF s = <<>> THEN s
    ELSE IF s[Len(s)] \in Whitespace THEN RStrip(SubSeq(s, 1, Len(s) - 1)) ELSE s

\* str.strip()
Strip(s) == RStrip(LStrip(s))

\* What generate_content can answer: no text, blank text, text with a
\* trailing blank.
GeneratorTexts == {<<>>, <<" ">>, <<"a", " ">>}

\* GeminiService.fallback_responses
TutorFallback == <<"I'm having trouble connecting to the AI service right now. Please try again in a moment.">>
ExplanationFallback == <<"I'm currently unable to generate an explanation. Please try again shortly, or try rephrasing your question.">>

\* The coordinator's fixed error messages
GeneralApology == <<"I apologize, but I'm having trouble generating a response right now. Please try again.">>
ComputationalApology == <<"I apologize, but I'm having trouble processing your request right now. Please try again.">>

(* ------------------------------------------------------------------ *)
(* Query classification (WolframService.detect_query_type)             *)
(* ------------------------------------------------------------------ *)
Messages == {"tell me about the French Revolution",
             "solve x^2+5x+6=0",
             "what is the formula for water",
             "what is 2 + 2",
             "draw a triangle"}

\* any(keyword in message_lower for keyword in MATH_KEYWORDS)
HasMathKeyword(m) == m \in {"solve x^2+5x+6=0", "draw a triangle"}
\* any(keyword in message_lower for keyword in SCIENCE_KEYWORDS)
HasScienceKeyword(m) == m \in {"what is the formula for water"}
\* one of math_patterns, or the digits-operator-digits pattern, matches
HasMathPattern(m) == m \in {"solve x^2+5x+6=0", "what is 2 + 2"}
\* any(keyword in message_lower for keyword in visual_keywords)
HasVisualKeyword(m) == m \in {"draw a triangle"}

detect_query_type(m) ==
    IF HasMathKeyword(m) THEN "mathematical"
    ELSE IF HasScienceKeyword(m) THEN "scientific"
    ELSE IF HasMathPattern(m) THEN "computational"
    ELSE "general"

should_use_wolfram(m) ==
    detect_query_type(m) \in {"mathematical", "scientific", "computational"}

(* ------------------------------------------------------------------ *)
(* The computational upstream and WolframService.query_computational   *)
(* ------------------------------------------------------------------ *)
PodTitles == {"Input", "Result"}
PlainTexts == {"p"}

\* A pod as the parser sees it: its title, the non-empty plaintexts of its
\* subpods, and how many of its subpods carry an image (none of them, or
\* MaxPodImages of them).
PodChoices ==
    [title : PodTitles,
     text : {<<>>} \cup {<<x>> : x \in PlainTexts},
     nimg : {0, MaxPodImages}]

PodLists == UNION {[1..n -> PodChoices] : n \in 0..MaxPods}

\* What client.query can answer; "raise" stands for any exception.
WolframResponses == [success : BOOLEAN, pods : PodLists]

\* The image URIs of pod number i, in subpod order; the upstream's k-th
\* image has the URI <<"img", k>>, and `before` images precede this pod's.
PodImages(pods, i, before) == [k \in 1..pods[i].nimg |-> <<"img", before + k>>]

\* images, as the loop over pods and subpods appends to it
RECURSIVE CollectImages(_, _, _)
CollectImages(pods, i, before) ==
    IF i > Len(pods) THEN <<>>
    ELSE PodImages(pods, i, before) \o CollectImages(pods, i + 1, before + pods[i].nimg)

ResultTitles == {"Result", "Solution", "Exact result"}

\* The first "Result"/"Solution" pod with text, else the second pod.
RECURSIVE FirstResultText(_, _)
FirstResultText(pods, i) ==
    IF i > Len(pods) THEN None
    ELSE IF pods[i].title \in ResultTitles /\ pods[i].text # <<>>
         THEN Some(pods[i].text[1])
         ELSE FirstResultText(pods, i + 1)

ParseResultText(pods) ==
    LET first == FirstResultText(pods, 1) IN
    IF IsSome(first) THEN first
    ELSE IF Len(pods) > 1 /\ pods[2].text # <<>> THEN Some(pods[2].text[1])
    ELSE None

CouldNotInterpret == "Wolfram Alpha could not interpret the query"

\* The WolframResult query_computational returns for an upstream answer.
ParseWolfram(res) ==
    IF ~res.success
    THEN [success |-> FALSE, result_text |-> None, images |-> <<>>,
          error_message |-> Some(CouldNotInterpret)]
    ELSE [success |-> TRUE, result_text |-> ParseResultText(res.pods),
          images |-> CollectImages(res.pods, 1, 0), error_message |-> None]

\* Step lists a "step by step" query can yield; empty means none found.
StepLists == {<<<<"s1">>, <<"s2">>>>}

\* What the second query of _extract_steps_from_basic_query can answer
\* (its images do not reach the steps).
BasicResponses == {r \in WolframResponses : \A i \in 1..Len(r.pods) : r.pods[i].nimg = 0}

InputTitles == {"input", "input interpretation"}
Lower(title) == IF title = "Input" THEN "input" ELSE title

RECURSIVE PodSteps(_, _)
PodSteps(pods, i) ==
    IF i > Len(pods) THEN <<>>
    ELSE (IF pods[i].text # <<>> /\ Lower(pods[i].title) \notin InputTitles
          THEN <<pods[i].text>> ELSE <<>>) \o PodSteps(pods, i + 1)

\* _extract_steps_from_basic_query on a successful WolframResult
BasicSteps(res) ==
    LET steps == PodSteps(res.pods, 1)
        rt == ParseResultText(res.pods) IN
    IF steps # <<>> THEN steps
    ELSE <<<<"Solution: ", IF IsSome(rt) THEN Get(rt) ELSE "No solution found">>>>

(* ------------------------------------------------------------------ *)
(* Prompts and the AI-response cache (CacheService over redis)         *)
(* ------------------------------------------------------------------ *)
Concepts == {"gravity", "entropy"}
\* The concepts an alternative explanation is asked for
UnclearConcepts == {"entropy"}

NoPrompt ==
    [template |-> "none", message |-> "", computational_answer |-> None,
     step_by_step |-> <<>>, enhanced |-> FALSE]

\* PromptTemplates.tutor_prompt on the user's own message
PlainPrompt(m) ==
    [template |-> "tutor", message |-> m, computational_answer |-> None,
     step_by_step |-> <<>>, enhanced |-> FALSE]

\* PromptTemplates.tutor_prompt on _create_enhanced_prompt(m, answer, steps):
\* the message, the computational result when truthy, the steps when any,
\* and always the closing request for an explanation.
EnhancedPrompt(m, answer, steps) ==
    [template |-> "tutor", message |-> m,
     computational_answer |-> IF IsSome(answer) /\ Get(answer) # "" THEN answer ELSE None,
     step_by_step |-> steps, enhanced |-> TRUE]

\* PromptTemplates.explanation_prompt(concept, "comprehensive")
ExplanationPrompt(c) ==
    [template |-> "explanation", message |-> c, computational_answer |-> None,
     step_by_step |-> <<>>, enhanced |-> FALSE]

\* PromptTemplates.alternative_explanation_prompt(concept, previous, feedback)
AlternativePrompt(c) ==
    [template |-> "alternative", message |-> c, computational_answer |-> None,
     step_by_step |-> <<>>, enhanced |-> FALSE]

\* CacheService.generate_prompt_hash: md5 of the prompt
generate_prompt_hash(prompt) == <<"md5", prompt>>

\* CacheService._generate_cache_key("ai_response", prompt_type, prompt_hash):
\* two short parts, so the direct key
ai_response_key(prompt_type, prompt_hash) == <<"ai_response", prompt_type, prompt_hash>>

CacheKeys ==
    {ai_response_key("explanation", generate_prompt_hash(ExplanationPrompt(c))) : c \in Concepts}

\* Python values handed to the cache: a str is its characters; a list, a
\* tuple and an object that json cannot encode carry a tag in front.
CacheValues == {<<"a", " ">>, <<"list", "1", "2">>, <<"tuple", "1", "2">>, <<"object">>}

\* json.dumps raises TypeError on what it cannot encode
Serializable(v) == v = <<>> \/ Head(v) # "object"

\* The JSON text of a value: a tuple is written as an array
ToJson(v) == IF v # <<>> /\ Head(v) = "tuple" THEN <<"list">> \o Tail(v) ELSE v

\* json.dumps / json.loads (an array is read back as a list)
json_dumps(v) == <<"json", ToJson(v)>>
json_loads(s) == s[2]

\* Keys of CacheService's generic get/set/delete, and a delete_pattern glob
GenericKeys == {<<"user", "u1">>, <<"progress", "u1">>}
Patterns == {<<"user", "*">>}
Matches(pattern, key) == key[1] = pattern[1]

\* The ttl arguments of CacheService.set
CacheTtls == {0, recovery_timeout}

\* SessionManager._get_cache_key: "session:{session_id}:messages"
SessionKey == <<"session", "s1", "messages">>

RedisKeys == CacheKeys \cup GenericKeys \cup {SessionKey}

\* The role arguments of add_message: one it accepts and one it rejects
Roles == {"user", "system"}
ValidRoles == {"user", "assistant"}

\* The max_messages arguments of get_session_context (20 is the default)
ContextSizes == {0, 2, 20}

\* The entry add_message and get_session_context cache for a message row
MessageDict(msg) == [id |-> msg.id, role |-> msg.role, content |-> msg.content]
\* The entry get_session_context returns for a message row or cached entry
ContextEntry(msg) == [role |-> msg.role, content |-> msg.content]

\* [{"id": ..., "role": ..., "content": ...} for msg in messages]
MessageDicts(seq) == [i \in 1..Len(seq) |-> MessageDict(seq[i])]
\* [{"role": msg["role"], "content": msg["content"]} for msg in messages]
ContextEntries(seq) == [i \in 1..Len(seq) |-> ContextEntry(seq[i])]

\* seq[-n:] of Python: the last n elements, and everything for n = 0
LastSlice(seq, n) ==
    IF n = 0 \/ n >= Len(seq) THEN seq ELSE SubSeq(seq, Len(seq) - n + 1, Len(seq))

Min(a, b) == IF a <= b THEN a ELSE b

\* list(reversed(seq))
Reversed(seq) == [i \in 1..Len(seq) |-> seq[Len(seq) - i + 1]]
\* Variant: the rows are left in the order of the query, newest first.
Unreversed(seq) == seq
\* .order_by(Message.timestamp.desc()): db_messages is kept in timestamp order
OrderByTimestampDesc(rows) == Reversed(rows)
\* .limit(n)
Limit(rows, n) == SubSeq(rows, 1, Min(n, Len(rows)))
\* messages = list(reversed(query.all()))
Chronological(rows) == Reversed(rows)
MostRecent(rows, n) == Chronological(Limit(OrderByTimestampDesc(rows), n))

\* json.dumps / json.loads of a list of message entries
json_dumps_messages(list) == <<"json", list>>

(* ------------------------------------------------------------------ *)
(* State                                                               *)
(* ------------------------------------------------------------------ *)
VARIABLES
    state,              \* CircuitBreaker.state of the generator's breaker
    failure_count,      \* CircuitBreaker.failure_count
    last_failure_time,  \* CircuitBreaker.last_failure_time (Optional)
    now,                \* time.time(), in seconds
    ticks,              \* clock steps taken
    redis,              \* cache key -> None or [value, expires_at]
    pc,                 \* where each caller is
    req,                \* the request a caller is serving
    prompt,             \* the prompt handed to _make_request_with_retry
    cache_key_prefix,   \* its cache_key_prefix argument (Optional)
    attempt,            \* the retry loop's index
    ret,                \* what the wrapped function returned or raised
    fc_read,            \* _on_failure: the failure_count it read
    wolfram_result,     \* coordinator local (Optional WolframResult)
    step_by_step,       \* coordinator local
    response,           \* the HybridResponse returned (None: an exception left the call)
    explanation,        \* what generate_explanation returned (Optional)
    admitted,           \* history: the breaker state the caller was let in under
    cached_at_call,     \* history: the live cache entry when the call was made
    upstream_calls,     \* history: generate_content calls of this request
    failed_attempts,    \* history: failed attempts of this request
    wolfram_calls,      \* history: client.query calls of this request
    consecutive_failures, \* history: failing breaker calls since the last success
    last_failed_at,     \* history: when the last breaker call failed (Optional)
    rejected_since,     \* history: a call was rejected since the last call that ran
    wolfram_failures,   \* history: query_computational calls that raised, in a row
    cache_op,           \* history: the last CacheService operation and its outcome
    last_set,           \* history: key -> the last successful set since any delete (Optional)
    db_session,         \* the sessions row (Optional)
    db_messages,        \* the messages rows of the session, in timestamp order
    sm_pc,              \* where each SessionManager call is
    sm_req,             \* the call and its arguments
    sm_count,           \* add_message: the message_count its session object was loaded with
    sm_message,         \* add_message: the message row it created (Optional)
    sm_cached,          \* cached_messages
    sm_rows,            \* get_session_context: the rows read from the database
    sm_duration,        \* complete_session: session.duration_seconds before the commit
    sm_ret,             \* what the call returned or raised
    sm_absent,          \* history: the cache read of this call found no entry
    cache_errors,       \* history: for each cache operation of this call, whether it raised
    write_failed,       \* history: ids of the messages whose cache write raised
    cache_from          \* history: the number of message rows when the cache entry was
                        \* last created or rebuilt

breaker_vars == <<state, failure_count, last_failure_time>>
clock_vars == <<now, ticks>>
call_vars == <<prompt, cache_key_prefix, attempt, ret, fc_read>>
coordinator_vars == <<wolfram_result, step_by_step, response, explanation>>
call_history == <<admitted, cached_at_call, upstream_calls, failed_attempts>>
breaker_history == <<consecutive_failures, last_failed_at, rejected_since>>
cache_history == <<cache_op, last_set>>
\* What the generator, the coordinator and the breaker work on
request_vars ==
    <<breaker_vars, pc, req, call_vars, coordinator_vars, call_history,
      breaker_history, wolfram_calls, wolfram_failures>>
session_db == <<db_session, db_messages>>
session_locals ==
    <<sm_pc, sm_req, sm_count, sm_message, sm_cached, sm_rows, sm_duration, sm_ret>>
session_history == <<sm_absent, cache_errors, write_failed, cache_from>>
session_vars == <<session_db, session_locals, session_history>>
\* What those never touch
store_vars == <<cache_history, session_vars>>

vars ==
    <<state, failure_count, last_failure_time, now, ticks, redis, pc, req,
      prompt, cache_key_prefix, attempt, ret, fc_read, wolfram_result,
      step_by_step, response, explanation, admitted, cached_at_call,
      upstream_calls, failed_attempts, wolfram_calls, consecutive_failures,
      last_failed_at, rejected_since, wolfram_failures, cache_op, last_set,
      db_session,
      db_messages, sm_pc, sm_req, sm_count, sm_message, sm_cached, sm_rows,
      sm_duration, sm_ret, sm_absent, cache_errors, write_failed,
      cache_from>>

NoOp == [op |-> "none"]
NoCall == [op |-> "none"]
NoResult == [kind |-> "none"]

NoReq == [kind |-> "none", message |-> "", force_wolfram |-> FALSE]
NoRet == [kind |-> "none", text |-> <<>>]

Init ==
    /\ state = "closed"
    /\ failure_count = 0
    /\ last_failure_time = None
    /\ now = 0
    /\ ticks = 0
    /\ redis = [k \in RedisKeys |-> None]
    /\ pc = [t \in Threads |-> "idle"]
    /\ req = [t \in Threads |-> NoReq]
    /\ prompt = [t \in Threads |-> NoPrompt]
    /\ cache_key_prefix = [t \in Threads |-> None]
    /\ attempt = [t \in Threads |-> 0]
    /\ ret = [t \in Threads |-> NoRet]
    /\ fc_read = [t \in Threads |-> 0]
    /\ wolfram_result = [t \in Threads |-> None]
    /\ step_by_step = [t \in Threads |-> <<>>]
    /\ response = [t \in Threads |-> None]
    /\ explanation = [t \in Threads |-> None]
    /\ admitted = [t \in Threads |-> "none"]
    /\ cached_at_call = [t \in Threads |-> None]
    /\ upstream_calls = [t \in Threads |-> 0]
    /\ failed_attempts = [t \in Threads |-> 0]
    /\ wolfram_calls = [t \in Threads |-> 0]
    /\ consecutive_failures = 0
    /\ last_failed_at = None
    /\ rejected_since = FALSE
    /\ wolfram_failures = 0
    /\ cache_op = NoOp
    /\ last_set = [k \in RedisKeys |-> None]
    /\ db_session = None
    /\ db_messages = <<>>
    /\ sm_pc = [t \in Threads |-> "idle"]
    /\ sm_req = [t \in Threads |-> NoCall]
    /\ sm_count = [t \in Threads |-> 0]
    /\ sm_message = [t \in Threads |-> None]
    /\ sm_cached = [t \in Threads |-> <<>>]
    /\ sm_rows = [t \in Threads |-> <<>>]
    /\ sm_duration = [t \in Threads |-> 0]
    /\ sm_ret = [t \in Threads |-> NoResult]
    /\ sm_absent = [t \in Threads |-> FALSE]
    /\ cache_errors = [t \in Threads |-> <<>>]
    /\ write_failed = {}
    /\ cache_from = 0

(* ------------------------------------------------------------------ *)
(* CircuitBreaker                                                      *)
(* ------------------------------------------------------------------ *)
\* Variant: the trial is allowed only strictly after recovery_timeout.
should_attempt_reset_after ==
    IF last_failure_time = None THEN TRUE
    ELSE now - Get(last_failure_time) > recovery_timeout

\* _should_attempt_reset
should_attempt_reset ==
    IF last_failure_time = None THEN TRUE
    ELSE now - Get(last_failure_time) >= recovery_timeout

\* call(): the OPEN check before the wrapped function is invoked
Rejects == state = "open" /\ ~should_attempt_reset

StateAfterGate == IF state = "open" THEN "half_open" ELSE state

\* Variant: the breaker opens one failure late.
StateAfterFailureLate(count) ==
    IF count > failure_threshold THEN "open" ELSE state

\* Variant: the breaker opens only when the count reaches the threshold exactly.
StateAfterFailureAtThreshold(count) ==
    IF count = failure_threshold THEN "open" ELSE state

\* _on_failure: the state after failure_count has been stored
StateAfterFailure(count) ==
    IF count >= failure_threshold THEN "open" ELSE state

Saturate(n) == IF n < failure_threshold THEN n ELSE failure_threshold

\* Variant: every attempt of the failed request is counted.
IncrementedPerAttempt(count) == count + max_retries

\* _on_failure: self.failure_count += 1
Incremented(count) == count + 1

(* ------------------------------------------------------------------ *)
(* CacheService.get_ai_response / set_ai_response                      *)
(* ------------------------------------------------------------------ *)
enable_caching == TRUE

\* redis GET: an entry past its expiry is gone
RedisGet(key) ==
    IF redis[key] # None /\ now < Get(redis[key]).expires_at
    THEN Some(Get(redis[key]).value) ELSE None

\* CacheService.get: the deserialized value, or None
CacheGet(key) ==
    LET value == RedisGet(key) IN
    IF IsSome(value) THEN Some(json_loads(Get(value))) ELSE None

\* ttl = ttl or self.DEFAULT_TTL
EffectiveTtl(ttl) == IF ttl = 0 THEN DEFAULT_TTL ELSE ttl

\* CacheService.set -> redis SETEX key ttl serialized
CacheSet(key, value, ttl) ==
    [redis EXCEPT ![key] = Some([value |-> json_dumps(value),
                                 expires_at |-> now + EffectiveTtl(ttl)])]

\* The key _make_request_with_retry reads and writes for caller t
RequestKey(t) ==
    ai_response_key(Get(cache_key_prefix[t]), generate_prompt_hash(prompt[t]))

UsesCache(t) == enable_caching /\ IsSome(cache_key_prefix[t])

\* cached_response, when it is truthy
CachedResponse(t) ==
    IF UsesCache(t) /\ IsSome(CacheGet(RequestKey(t))) /\ Truthy(Get(CacheGet(RequestKey(t))))
    THEN CacheGet(RequestKey(t)) ELSE None

(* ------------------------------------------------------------------ *)
(* What the callers of the breaker-wrapped request do with its outcome *)
(* ------------------------------------------------------------------ *)
\* Variant: the exception of the wrapped request is raised to the caller.
generate_tutor_response_reraising(r) ==
    IF r.kind = "value"
    THEN [raised |-> FALSE, exception |-> "none", text |-> Strip(r.text)]
    ELSE [raised |-> TRUE, exception |-> r.kind, text |-> <<>>]

\* GeminiService.generate_tutor_response: every exception becomes the
\* fallback text, so nothing is ever raised to the coordinator.
generate_tutor_response(r) ==
    IF r.kind = "value"
    THEN [raised |-> FALSE, exception |-> "none", text |-> Strip(r.text)]
    ELSE [raised |-> FALSE, exception |-> "none", text |-> TutorFallback]

\* GeminiService.generate_explanation and generate_alternative_explanation
generate_explanation(r) ==
    IF r.kind = "value" THEN Strip(r.text) ELSE ExplanationFallback

HybridResponse(message, has_wolfram_data, wr, answer, steps, images, source) ==
    [message |-> message, has_wolfram_data |-> has_wolfram_data,
     wolfram_result |-> wr, computational_answer |-> answer,
     step_by_step |-> steps, images |-> images, source |-> source]

\* generate_hybrid_response, not use_wolfram: the pure generator path
PureResponse(out) ==
    IF out.raised
    THEN HybridResponse(GeneralApology, FALSE, None, None, <<>>, <<>>, "error")
    ELSE HybridResponse(out.text, FALSE, None, None, <<>>, <<>>, "gemini")

\* The images the merged response carries
CarriedImages(images) == images

\* _generate_computational_response, wolfram_result and wolfram_result.success
MergedResponse(out, wr, steps) ==
    IF out.raised
    THEN HybridResponse(ComputationalApology, FALSE, None, None, <<>>, <<>>, "error")
    ELSE HybridResponse(out.text, TRUE, Some(wr), wr.result_text, steps,
                        CarriedImages(wr.images), "hybrid")

GeneratedImage == <<"img", "generated">>

\* _maybe_generate_image: img is what generate_image answered (or None)
maybe_generate_image(m, img) ==
    IF HasVisualKeyword(m) /\ IsSome(img) THEN <<Get(img)>> ELSE <<>>

\* _generate_computational_response, the else branch: "Wolfram didn't work"
FallbackResponse(out, m, img) ==
    IF out.raised
    THEN HybridResponse(ComputationalApology, FALSE, None, None, <<>>, <<>>, "error")
    ELSE HybridResponse(out.text, FALSE, None, None, <<>>,
                        maybe_generate_image(m, img), "gemini")

\* Variant: any WolframResult, successful or not, is merged.
TakesMergeBranchOnAnyResult(wr) == IsSome(wr)

\* The coordinator takes the merge branch on any successful WolframResult.
TakesMergeBranch(wr) == IsSome(wr) /\ Get(wr).success

\* Variant: every request is sent to the computational adapter.
UsesWolframAlways(r) == TRUE

\* use_wolfram = force_wolfram or self.should_use_wolfram(message)
UsesWolfram(r) == r.force_wolfram \/ should_use_wolfram(r.message)

\* The coordinator's handlers are "except GeminiServiceError": any other
\* exception of the generator call leaves generate_hybrid_response.
Escapes(out) == out.raised /\ out.exception # "GeminiServiceError"

\* The response generate_hybrid_response builds once the generator call is over
Respond(t, r, img) ==
    LET out == generate_tutor_response(r) IN
    IF ~UsesWolfram(req[t]) THEN PureResponse(out)
    ELSE IF TakesMergeBranch(wolfram_result[t])
         THEN MergedResponse(out, Get(wolfram_result[t]), step_by_step[t])
         ELSE FallbackResponse(out, req[t].message, img)

\* The breaker-wrapped call is over with outcome r: back in the caller.
Return(t, r) ==
    /\ pc' = [pc EXCEPT ![t] = "done"]
    /\ IF req[t].kind \in {"explain", "alternative"}
       THEN /\ explanation' = [explanation EXCEPT ![t] = Some(generate_explanation(r))]
            /\ UNCHANGED response
       ELSE /\ \E img \in {None, Some(GeneratedImage)} :
                 response' = [response EXCEPT ![t] =
                                 IF Escapes(generate_tutor_response(r)) THEN None
                                 ELSE Some(Respond(t, r, img))]
            /\ UNCHANGED explanation

(* ------------------------------------------------------------------ *)
(* AICoordinator.generate_hybrid_response                              *)
(* ------------------------------------------------------------------ *)
\* The generator call that follows: generate_tutor_response(message, ...)
CallGenerator(t, p) ==
    /\ prompt' = [prompt EXCEPT ![t] = p]
    /\ cache_key_prefix' = [cache_key_prefix EXCEPT ![t] = None]
    /\ pc' = [pc EXCEPT ![t] = "call"]

BeginHybrid(t, m, force) ==
    /\ pc[t] = "idle"
    /\ req' = [req EXCEPT ![t] = [kind |-> "hybrid", message |-> m, force_wolfram |-> force]]
    /\ IF UsesWolfram(req'[t])
       THEN /\ pc' = [pc EXCEPT ![t] = "wolfram"]
            /\ UNCHANGED <<prompt, cache_key_prefix>>
       ELSE CallGenerator(t, PlainPrompt(m))
    /\ UNCHANGED <<breaker_vars, clock_vars, redis, attempt, ret, fc_read,
                   coordinator_vars, call_history, breaker_history, wolfram_calls, wolfram_failures>>
    /\ UNCHANGED store_vars

\* query_computational: client.query raises, so WolframServiceError is raised
\* and the coordinator falls back to the generator alone.
QueryComputationalRaises(t) ==
    /\ pc[t] = "wolfram"
    /\ wolfram_calls' = [wolfram_calls EXCEPT ![t] = @ + 1]
    /\ wolfram_failures' = Saturate(wolfram_failures + 1)
    /\ CallGenerator(t, PlainPrompt(req[t].message))
    /\ UNCHANGED <<breaker_vars, clock_vars, redis, req, attempt, ret, fc_read,
                   coordinator_vars, call_history, breaker_history>>
    /\ UNCHANGED store_vars

\* query_computational returns a WolframResult (successful or not).
QueryComputationalReturns(t, res) ==
    /\ pc[t] = "wolfram"
    /\ wolfram_calls' = [wolfram_calls EXCEPT ![t] = @ + 1]
    /\ wolfram_failures' = 0
    /\ wolfram_result' = [wolfram_result EXCEPT ![t] = Some(ParseWolfram(res))]
    /\ IF res.success
       THEN /\ pc' = [pc EXCEPT ![t] = "steps"]
            /\ UNCHANGED <<prompt, cache_key_prefix>>
       ELSE CallGenerator(t, PlainPrompt(req[t].message))
    /\ UNCHANGED <<breaker_vars, clock_vars, redis, req, attempt, ret, fc_read,
                   step_by_step, response, explanation, call_history,
                   breaker_history>>
    /\ UNCHANGED store_vars

\* After get_step_by_step_solution: the generator is asked with the
\* enhanced prompt.
AfterSteps(t, steps) ==
    /\ step_by_step' = [step_by_step EXCEPT ![t] = steps]
    /\ CallGenerator(t, EnhancedPrompt(req[t].message,
                                       Get(wolfram_result[t]).result_text, steps))

\* get_step_by_step_solution: the "step by step" query raises.
StepByStepRaises(t) ==
    /\ pc[t] = "steps"
    /\ wolfram_calls' = [wolfram_calls EXCEPT ![t] = @ + 1]
    /\ UNCHANGED wolfram_failures
    /\ AfterSteps(t, <<>>)
    /\ UNCHANGED <<breaker_vars, clock_vars, redis, req, attempt, ret, fc_read,
                   wolfram_result, response, explanation, call_history,
                   breaker_history>>
    /\ UNCHANGED store_vars

\* get_step_by_step_solution: the "step by step" query yields steps.
StepByStepFound(t, steps) ==
    /\ pc[t] = "steps"
    /\ wolfram_calls' = [wolfram_calls EXCEPT ![t] = @ + 1]
    /\ UNCHANGED wolfram_failures
    /\ AfterSteps(t, steps)
    /\ UNCHANGED <<breaker_vars, clock_vars, redis, req, attempt, ret, fc_read,
                   wolfram_result, response, explanation, call_history,
                   breaker_history>>
    /\ UNCHANGED store_vars

\* No steps (or an unsuccessful answer): _extract_steps_from_basic_query
\* calls query_computational again, and that call raises.
StepByStepBasicRaises(t) ==
    /\ pc[t] = "steps"
    /\ wolfram_calls' = [wolfram_calls EXCEPT ![t] = @ + 2]
    /\ wolfram_failures' = Saturate(wolfram_failures + 1)
    /\ AfterSteps(t, <<>>)
    /\ UNCHANGED <<breaker_vars, clock_vars, redis, req, attempt, ret, fc_read,
                   wolfram_result, response, explanation, call_history,
                   breaker_history>>
    /\ UNCHANGED store_vars

\* ... and that call returns: its pods give the steps, unless the result
\* is unsuccessful ("Could not solve the problem" is raised and swallowed).
StepByStepBasicReturns(t, res) ==
    /\ pc[t] = "steps"
    /\ wolfram_calls' = [wolfram_calls EXCEPT ![t] = @ + 2]
    /\ wolfram_failures' = 0
    /\ AfterSteps(t, IF res.success THEN BasicSteps(res) ELSE <<>>)
    /\ UNCHANGED <<breaker_vars, clock_vars, redis, req, attempt, ret, fc_read,
                   wolfram_result, response, explanation, call_history,
                   breaker_history>>
    /\ UNCHANGED store_vars

(* ------------------------------------------------------------------ *)
(* GeminiService.generate_explanation (a cached generator request)     *)
(* ------------------------------------------------------------------ *)
BeginExplain(t, c) ==
    /\ pc[t] = "idle"
    /\ req' = [req EXCEPT ![t] = [kind |-> "explain", message |-> c, force_wolfram |-> FALSE]]
    /\ prompt' = [prompt EXCEPT ![t] = ExplanationPrompt(c)]
    /\ cache_key_prefix' = [cache_key_prefix EXCEPT ![t] = Some("explanation")]
    /\ pc' = [pc EXCEPT ![t] = "call"]
    /\ UNCHANGED <<breaker_vars, clock_vars, redis, attempt, ret, fc_read,
                   coordinator_vars, call_history, breaker_history, wolfram_calls, wolfram_failures>>
    /\ UNCHANGED store_vars

(* ------------------------------------------------------------------ *)
(* GeminiService.generate_alternative_explanation (not cached)         *)
(* ------------------------------------------------------------------ *)
BeginAlternative(t, c) ==
    /\ pc[t] = "idle"
    /\ req' = [req EXCEPT ![t] = [kind |-> "alternative", message |-> c, force_wolfram |-> FALSE]]
    /\ prompt' = [prompt EXCEPT ![t] = AlternativePrompt(c)]
    /\ cache_key_prefix' = [cache_key_prefix EXCEPT ![t] = None]
    /\ pc' = [pc EXCEPT ![t] = "call"]
    /\ UNCHANGED <<breaker_vars, clock_vars, redis, attempt, ret, fc_read,
                   coordinator_vars, call_history, breaker_history, wolfram_calls, wolfram_failures>>
    /\ UNCHANGED store_vars

(* ------------------------------------------------------------------ *)
(* breaker.call(_make_request_with_retry, prompt, ...)                 *)
(* ------------------------------------------------------------------ *)
OpenError == [kind |-> "CircuitBreakerOpenError", text |-> <<>>]
RetriesExhausted == [kind |-> "GeminiServiceError", text |-> <<>>]
Value(text) == [kind |-> "value", text |-> text]

\* CircuitBreaker.call up to the invocation of the wrapped function, and
\* the function's cache lookup when it is invoked.
BreakerCall(t) ==
    /\ pc[t] = "call"
    /\ cached_at_call' = [cached_at_call EXCEPT ![t] = CachedResponse(t)]
    /\ IF Rejects
       THEN /\ ret' = [ret EXCEPT ![t] = OpenError]
            /\ Return(t, OpenError)
            /\ rejected_since' = TRUE
            /\ UNCHANGED <<breaker_vars, attempt, admitted, consecutive_failures,
                           last_failed_at>>
       ELSE /\ state' = StateAfterGate
            /\ admitted' = [admitted EXCEPT ![t] = state]
            /\ UNCHANGED <<failure_count, last_failure_time, response, explanation>>
            /\ IF IsSome(CachedResponse(t))
               THEN /\ ret' = [ret EXCEPT ![t] = Value(Get(CachedResponse(t)))]
                    /\ pc' = [pc EXCEPT ![t] = "on_success"]
                    /\ consecutive_failures' = 0
                    /\ rejected_since' = FALSE
                    /\ UNCHANGED <<attempt, last_failed_at>>
               ELSE /\ attempt' = [attempt EXCEPT ![t] = 0]
                    /\ pc' = [pc EXCEPT ![t] = "attempt"]
                    /\ UNCHANGED <<ret, breaker_history>>
    /\ UNCHANGED <<clock_vars, redis, req, prompt, cache_key_prefix, fc_read,
                   wolfram_result, step_by_step, upstream_calls, failed_attempts,
                   wolfram_calls, wolfram_failures>>
    /\ UNCHANGED store_vars

\* Variant: the loop runs once more.
InRangeInclusive(i) == i <= max_retries

\* for attempt in range(self.max_retries)
InRange(i) == i < max_retries

\* One pass of the retry loop whose generate_content call gives a text.
AttemptSucceeds(t, text) ==
    /\ pc[t] = "attempt"
    /\ Truthy(text)
    /\ upstream_calls' = [upstream_calls EXCEPT ![t] = @ + 1]
    /\ redis' = IF UsesCache(t) THEN CacheSet(RequestKey(t), text, AI_RESPONSE_TTL) ELSE redis
    /\ ret' = [ret EXCEPT ![t] = Value(text)]
    /\ pc' = [pc EXCEPT ![t] = "on_success"]
    /\ consecutive_failures' = 0
    /\ rejected_since' = FALSE
    /\ UNCHANGED <<breaker_vars, clock_vars, req, prompt, cache_key_prefix, attempt,
                   fc_read, coordinator_vars, admitted, cached_at_call,
                   failed_attempts, last_failed_at, wolfram_calls, wolfram_failures>>
    /\ UNCHANGED store_vars

\* One pass whose generate_content call raises or answers without text:
\* the loop goes on while the range lasts, then GeminiServiceError.
AttemptFails(t) ==
    /\ pc[t] = "attempt"
    /\ upstream_calls' = [upstream_calls EXCEPT ![t] = @ + 1]
    /\ failed_attempts' = [failed_attempts EXCEPT ![t] = @ + 1]
    /\ attempt' = [attempt EXCEPT ![t] = @ + 1]
    /\ IF InRange(attempt[t] + 1)
       THEN UNCHANGED <<pc, ret, breaker_history>>
       ELSE /\ ret' = [ret EXCEPT ![t] = RetriesExhausted]
            /\ pc' = [pc EXCEPT ![t] = "on_failure"]
            /\ consecutive_failures' = Saturate(consecutive_failures + 1)
            /\ last_failed_at' = Some(now)
            /\ rejected_since' = FALSE
    /\ UNCHANGED <<breaker_vars, clock_vars, redis, req, prompt, cache_key_prefix,
                   fc_read, coordinator_vars, admitted, cached_at_call,
                   wolfram_calls, wolfram_failures>>
    /\ UNCHANGED store_vars

\* CircuitBreaker._on_success, then the result goes back to the caller.
OnSuccess(t) ==
    /\ pc[t] = "on_success"
    /\ failure_count' = 0
    /\ state' = "closed"
    /\ Return(t, ret[t])
    /\ UNCHANGED <<last_failure_time, clock_vars, redis, req, call_vars,
                   wolfram_result, step_by_step, call_history, breaker_history,
                   wolfram_calls, wolfram_failures>>
    /\ UNCHANGED store_vars

\* CircuitBreaker._on_failure: failure_count is read ...
OnFailure(t) ==
    /\ pc[t] = "on_failure"
    /\ fc_read' = [fc_read EXCEPT ![t] = failure_count]
    /\ pc' = [pc EXCEPT ![t] = "on_failure_store"]
    /\ UNCHANGED <<breaker_vars, clock_vars, redis, req, prompt, cache_key_prefix,
                   attempt, ret, coordinator_vars, call_history, breaker_history,
                   wolfram_calls, wolfram_failures>>
    /\ UNCHANGED store_vars

\* ... and stored back incremented; the time is taken, the threshold
\* checked, and the exception re-raised to the caller.
OnFailureStore(t) ==
    /\ pc[t] = "on_failure_store"
    /\ failure_count' = Incremented(fc_read[t])
    /\ last_failure_time' = Some(now)
    /\ state' = StateAfterFailure(Incremented(fc_read[t]))
    /\ Return(t, ret[t])
    /\ UNCHANGED <<clock_vars, redis, req, call_vars, wolfram_result, step_by_step,
                   call_history, breaker_history, wolfram_calls, wolfram_failures>>
    /\ UNCHANGED store_vars

\* The caller has its answer; the request is over.
Finish(t) ==
    /\ pc[t] = "done"
    /\ pc' = [pc EXCEPT ![t] = "idle"]
    /\ req' = [req EXCEPT ![t] = NoReq]
    /\ prompt' = [prompt EXCEPT ![t] = NoPrompt]
    /\ cache_key_prefix' = [cache_key_prefix EXCEPT ![t] = None]
    /\ attempt' = [attempt EXCEPT ![t] = 0]
    /\ ret' = [ret EXCEPT ![t] = NoRet]
    /\ fc_read' = [fc_read EXCEPT ![t] = 0]
    /\ wolfram_result' = [wolfram_result EXCEPT ![t] = None]
    /\ step_by_step' = [step_by_step EXCEPT ![t] = <<>>]
    /\ response' = [response EXCEPT ![t] = None]
    /\ explanation' = [explanation EXCEPT ![t] = None]
    /\ admitted' = [admitted EXCEPT ![t] = "none"]
    /\ cached_at_call' = [cached_at_call EXCEPT ![t] = None]
    /\ upstream_calls' = [upstream_calls EXCEPT ![t] = 0]
    /\ failed_attempts' = [failed_attempts EXCEPT ![t] = 0]
    /\ wolfram_calls' = [wolfram_calls EXCEPT ![t] = 0]
    /\ UNCHANGED <<breaker_vars, clock_vars, redis, breaker_history, wolfram_failures>>
    /\ UNCHANGED store_vars

\* Time passes.
Tick(d) ==
    /\ ticks < MaxTicks
    /\ ticks' = ticks + 1
    /\ now' = now + d
    /\ UNCHANGED <<breaker_vars, redis, pc, req, call_vars, coordinator_vars,
                   call_history, breaker_history, wolfram_calls, wolfram_failures>>
    /\ UNCHANGED store_vars

(* ------------------------------------------------------------------ *)
(* CacheService.get / set / delete / delete_pattern                    *)
(* ------------------------------------------------------------------ *)
\* Variant: the error is raised to the caller.
OnCacheErrorRaise(default) == [raised |-> TRUE, result |-> default]

\* except Exception: the error is printed and the default returned
OnCacheError(default) == [raised |-> FALSE, result |-> default]

Returns(value) == [raised |-> FALSE, result |-> value]

\* The record of one operation: `failed` says that the store or the
\* (de)serialization raised inside it.
Outcome(op, key, failed, out) ==
    [op |-> op, key |-> key, failed |-> failed, raised |-> out.raised,
     result |-> out.result, at |-> now]

\* get(key); `raises`: redis_client.get or json.loads raises
CacheServiceGet(k, raises) ==
    /\ cache_op' = Outcome("get", k, raises,
                           IF raises THEN OnCacheError(None) ELSE Returns(CacheGet(k)))
    /\ UNCHANGED <<redis, last_set, clock_vars, request_vars, session_vars>>

\* set(key, value, ttl); json.dumps raises on what it cannot encode, and
\* `raises` says that redis_client.setex does
CacheServiceSet(k, v, ttl, raises) ==
    LET failed == raises \/ ~Serializable(v) IN
    /\ redis' = IF failed THEN redis ELSE CacheSet(k, v, ttl)
    /\ cache_op' = Outcome("set", k, failed,
                           IF failed THEN OnCacheError(FALSE) ELSE Returns(TRUE))
    /\ last_set' = IF failed THEN last_set
                   ELSE [last_set EXCEPT ![k] = Some([value |-> v, ttl |-> ttl, at |-> now])]
    /\ UNCHANGED <<clock_vars, request_vars, session_vars>>

\* delete(key)
CacheServiceDelete(k, raises) ==
    /\ redis' = IF raises THEN redis ELSE [redis EXCEPT ![k] = None]
    /\ cache_op' = Outcome("delete", k, raises,
                           IF raises THEN OnCacheError(FALSE) ELSE Returns(TRUE))
    /\ last_set' = IF raises THEN last_set ELSE [last_set EXCEPT ![k] = None]
    /\ UNCHANGED <<clock_vars, request_vars, session_vars>>

\* redis_client.keys(pattern): the live keys that match
LiveKeys(pattern) == {k \in RedisKeys : Matches(pattern, k) /\ IsSome(RedisGet(k))}

\* delete_pattern(pattern): the number of keys deleted
CacheServiceDeletePattern(pattern, raises) ==
    LET keys == IF raises THEN {} ELSE LiveKeys(pattern) IN
    /\ redis' = [k \in RedisKeys |-> IF k \in keys THEN None ELSE redis[k]]
    /\ cache_op' = Outcome("delete_pattern", pattern, raises,
                           IF raises THEN OnCacheError(0) ELSE Returns(Cardinality(keys)))
    /\ last_set' = [k \in RedisKeys |-> IF k \in keys THEN None ELSE last_set[k]]
    /\ UNCHANGED <<clock_vars, request_vars, session_vars>>

(* ------------------------------------------------------------------ *)
(* SessionManager: one session, its message rows and its cache entry    *)
(* ------------------------------------------------------------------ *)
Users == {"u1"}
UserIds == {"u1", "u2"}

Call(op, role, max_messages) == [op |-> op, role |-> role, max_messages |-> max_messages]
SessionValue(message, context, session) ==
    [kind |-> "value", message |-> message, context |-> context,
     session |-> session, owed |-> {}]
SessionManagerError(reason) ==
    [kind |-> "SessionManagerError", message |-> None, context |-> <<>>,
     session |-> None, owed |-> {}, reason |-> reason]

\* Session(status="active", message_count=0, duration_seconds=0);
\* started_at defaults to utcnow() at the insert
NewSession ==
    [status |-> "active", message_count |-> 0, duration_seconds |-> 0,
     started_at |-> now, completed_at |-> None]

\* redis_client.setex(cache_key, self.cache_ttl, json.dumps(list))
SessionCacheSet(list) ==
    [redis EXCEPT ![SessionKey] = Some([value |-> json_dumps_messages(list),
                                        expires_at |-> now + cache_ttl])]

\* _get_cached_messages: [] when the entry is absent or the cache raises
CachedMessages(raises) ==
    IF raises \/ RedisGet(SessionKey) = None THEN <<>>
    ELSE json_loads(Get(RedisGet(SessionKey)))

\* add_message calls that hold a session object and have not committed yet
Adding == {t \in Threads : sm_pc[t] = "add_commit"}

\* create_session(user_id, topic); `raises`: redis_client.setex raises
CreateSession(t, user_id, raises) ==
    /\ sm_pc[t] = "idle"
    /\ db_session = None
    /\ sm_pc' = [sm_pc EXCEPT ![t] = "done"]
    /\ sm_req' = [sm_req EXCEPT ![t] = Call("create_session", "", 0)]
    /\ IF user_id \notin Users
       THEN /\ sm_ret' = [sm_ret EXCEPT ![t] = SessionManagerError("user not found")]
            /\ UNCHANGED <<db_session, redis, cache_errors, cache_from>>
       ELSE /\ db_session' = Some(NewSession)
            /\ cache_errors' = [cache_errors EXCEPT ![t] = <<raises>>]
            /\ IF raises
               THEN /\ sm_ret' = [sm_ret EXCEPT ![t] =
                                     SessionManagerError("Failed to create session")]
                    /\ UNCHANGED <<redis, cache_from>>
               ELSE /\ redis' = SessionCacheSet(<<>>)
                    /\ cache_from' = Len(db_messages)
                    /\ sm_ret' = [sm_ret EXCEPT ![t] = SessionValue(None, <<>>, Some(NewSession))]
    /\ UNCHANGED <<db_messages, sm_count, sm_message, sm_cached, sm_rows, sm_duration,
                   sm_absent, write_failed>>
    /\ UNCHANGED <<clock_vars, request_vars, cache_history>>

\* add_message up to the role check: the session is loaded with its message_count
AddMessageBegin(t, role) ==
    /\ sm_pc[t] = "idle"
    /\ Len(db_messages) + Cardinality(Adding) < MaxMessages
    /\ sm_req' = [sm_req EXCEPT ![t] = Call("add_message", role, 0)]
    /\ IF db_session = None
       THEN /\ sm_ret' = [sm_ret EXCEPT ![t] = SessionManagerError("not found")]
            /\ sm_pc' = [sm_pc EXCEPT ![t] = "done"]
            /\ UNCHANGED sm_count
       ELSE IF Get(db_session).status # "active"
       THEN /\ sm_ret' = [sm_ret EXCEPT ![t] = SessionManagerError("not active")]
            /\ sm_pc' = [sm_pc EXCEPT ![t] = "done"]
            /\ UNCHANGED sm_count
       ELSE IF role \notin ValidRoles
       THEN /\ sm_ret' = [sm_ret EXCEPT ![t] = SessionManagerError("Invalid role")]
            /\ sm_pc' = [sm_pc EXCEPT ![t] = "done"]
            /\ UNCHANGED sm_count
       ELSE /\ sm_count' = [sm_count EXCEPT ![t] = Get(db_session).message_count]
            /\ sm_pc' = [sm_pc EXCEPT ![t] = "add_commit"]
            /\ UNCHANGED sm_ret
    /\ UNCHANGED <<session_db, redis, sm_message, sm_cached, sm_rows, sm_duration,
                   session_history>>
    /\ UNCHANGED <<clock_vars, request_vars, cache_history>>

\* Variant: the message is handed to the cache step before its row is committed.
AddMessageUncommitted(t) ==
    /\ sm_pc[t] = "add_commit"
    /\ LET id == Len(db_messages) + Cardinality(Adding)
           message == [id |-> id, role |-> sm_req[t].role, content |-> id]
       IN sm_message' = [sm_message EXCEPT ![t] = Some(message)]
    /\ sm_pc' = [sm_pc EXCEPT ![t] = "add_read"]
    /\ UNCHANGED <<session_db, redis, sm_req, sm_count, sm_cached, sm_rows, sm_duration,
                   sm_ret, session_history>>
    /\ UNCHANGED <<clock_vars, request_vars, cache_history>>

\* db.add(message); session.message_count += 1; db.commit()
AddMessageCommit(t) ==
    /\ sm_pc[t] = "add_commit"
    /\ LET id == Len(db_messages) + 1
           message == [id |-> id, role |-> sm_req[t].role, content |-> id]
       IN /\ db_messages' = Append(db_messages, message)
          /\ sm_message' = [sm_message EXCEPT ![t] = Some(message)]
    /\ db_session' = Some([Get(db_session) EXCEPT !.message_count = sm_count[t] + 1])
    /\ sm_pc' = [sm_pc EXCEPT ![t] = "add_read"]
    /\ UNCHANGED <<redis, sm_req, sm_count, sm_cached, sm_rows, sm_duration, sm_ret,
                   session_history>>
    /\ UNCHANGED <<clock_vars, request_vars, cache_history>>

\* cached_messages = self._get_cached_messages(...); `raises`: redis_client.get raises
AddMessageReadCache(t, raises) ==
    /\ sm_pc[t] = "add_read"
    /\ sm_cached' = [sm_cached EXCEPT ![t] = CachedMessages(raises)]
    /\ sm_absent' = [sm_absent EXCEPT ![t] = raises \/ RedisGet(SessionKey) = None]
    /\ cache_errors' = [cache_errors EXCEPT ![t] = Append(@, raises)]
    /\ sm_pc' = [sm_pc EXCEPT ![t] = "add_write"]
    /\ UNCHANGED <<session_db, redis, sm_req, sm_count, sm_message, sm_rows,
                   sm_duration, sm_ret, write_failed, cache_from>>
    /\ UNCHANGED <<clock_vars, request_vars, cache_history>>

\* cached_messages.append(message_dict); redis_client.setex(...); return message.
\* `raises`: setex raises, which the handler turns into SessionManagerError after
\* a rollback that has nothing left to undo
AddMessageWriteCache(t, raises) ==
    /\ sm_pc[t] = "add_write"
    /\ LET message == Get(sm_message[t])
           list == Append(sm_cached[t], MessageDict(message))
       IN IF raises
          THEN /\ sm_ret' = [sm_ret EXCEPT ![t] =
                                SessionManagerError("Failed to add message")]
               /\ write_failed' = write_failed \cup {message.id}
               /\ UNCHANGED <<redis, cache_from>>
          ELSE /\ redis' = SessionCacheSet(list)
               /\ sm_ret' = [sm_ret EXCEPT ![t] = SessionValue(Some(message), <<>>, None)]
               /\ cache_from' = IF sm_absent[t] THEN message.id - 1 ELSE cache_from
               /\ UNCHANGED write_failed
    /\ cache_errors' = [cache_errors EXCEPT ![t] = Append(@, raises)]
    /\ sm_pc' = [sm_pc EXCEPT ![t] = "done"]
    /\ UNCHANGED <<session_db, sm_req, sm_count, sm_message, sm_cached, sm_rows,
                   sm_duration, sm_absent>>
    /\ UNCHANGED <<clock_vars, request_vars, cache_history>>

\* get_session_context up to the cache hit; `raises`: redis_client.get raises
GetContextRead(t, max_messages, raises) ==
    /\ sm_pc[t] = "idle"
    /\ sm_req' = [sm_req EXCEPT ![t] = Call("get_session_context", "", max_messages)]
    /\ IF db_session = None
       THEN /\ sm_ret' = [sm_ret EXCEPT ![t] = SessionManagerError("not found")]
            /\ sm_pc' = [sm_pc EXCEPT ![t] = "done"]
            /\ UNCHANGED <<sm_cached, sm_absent, cache_errors, write_failed>>
       ELSE LET cached_messages == CachedMessages(raises) IN
            /\ sm_cached' = [sm_cached EXCEPT ![t] = cached_messages]
            /\ sm_absent' = [sm_absent EXCEPT ![t] = raises \/ RedisGet(SessionKey) = None]
            /\ cache_errors' = [cache_errors EXCEPT ![t] = <<raises>>]
            /\ IF cached_messages # <<>>
               THEN /\ sm_ret' = [sm_ret EXCEPT ![t] =
                         [SessionValue(None,
                                ContextEntries(LastSlice(cached_messages, max_messages)),
                                None)
                          EXCEPT !.owed = write_failed]]
                    /\ write_failed' = {}
                    /\ sm_pc' = [sm_pc EXCEPT ![t] = "done"]
               ELSE /\ sm_pc' = [sm_pc EXCEPT ![t] = "get_query"]
                    /\ UNCHANGED <<sm_ret, write_failed>>
    /\ UNCHANGED <<session_db, redis, sm_count, sm_message, sm_rows, sm_duration,
                   cache_from>>
    /\ UNCHANGED <<clock_vars, request_vars, cache_history>>

\* The fallback query: the last max_messages rows, put back in chronological order
GetContextQuery(t) ==
    /\ sm_pc[t] = "get_query"
    /\ sm_rows' = [sm_rows EXCEPT ![t] = MostRecent(db_messages, sm_req[t].max_messages)]
    /\ sm_pc' = [sm_pc EXCEPT ![t] = "get_store"]
    /\ UNCHANGED <<session_db, redis, sm_req, sm_count, sm_message, sm_cached,
                   sm_duration, sm_ret, sm_absent, cache_errors, write_failed, cache_from>>
    /\ UNCHANGED <<clock_vars, request_vars, cache_history>>

\* Rebuild the cache entry from the rows and return them; `raises`: setex raises
GetContextStore(t, raises) ==
    /\ sm_pc[t] = "get_store"
    /\ IF raises
       THEN /\ sm_ret' = [sm_ret EXCEPT ![t] =
                             SessionManagerError("Failed to get session context")]
            /\ UNCHANGED <<redis, cache_from, write_failed>>
       ELSE /\ redis' = SessionCacheSet(MessageDicts(sm_rows[t]))
            /\ cache_from' = Len(db_messages)
            /\ sm_ret' = [sm_ret EXCEPT ![t] =
                  [SessionValue(None, ContextEntries(sm_rows[t]), None)
                   EXCEPT !.owed = write_failed]]
            /\ write_failed' = {}
    /\ cache_errors' = [cache_errors EXCEPT ![t] = Append(@, raises)]
    /\ sm_pc' = [sm_pc EXCEPT ![t] = "done"]
    /\ UNCHANGED <<session_db, sm_req, sm_count, sm_message, sm_cached, sm_rows,
                   sm_duration, sm_absent>>
    /\ UNCHANGED <<clock_vars, request_vars, cache_history>>

\* complete_session up to session.duration_seconds = int((utcnow() - started_at)...)
CompleteBegin(t) ==
    /\ sm_pc[t] = "idle"
    /\ sm_req' = [sm_req EXCEPT ![t] = Call("complete_session", "", 0)]
    /\ IF db_session = None
       THEN /\ sm_ret' = [sm_ret EXCEPT ![t] = SessionManagerError("not found")]
            /\ sm_pc' = [sm_pc EXCEPT ![t] = "done"]
            /\ UNCHANGED sm_duration
       ELSE IF Get(db_session).status # "active"
       THEN /\ sm_ret' = [sm_ret EXCEPT ![t] = SessionManagerError("not active")]
            /\ sm_pc' = [sm_pc EXCEPT ![t] = "done"]
            /\ UNCHANGED sm_duration
       ELSE /\ sm_duration' = [sm_duration EXCEPT ![t] = now - Get(db_session).started_at]
            /\ sm_pc' = [sm_pc EXCEPT ![t] = "complete_commit"]
            /\ UNCHANGED sm_ret
    /\ UNCHANGED <<session_db, redis, sm_count, sm_message, sm_cached, sm_rows,
                   session_history>>
    /\ UNCHANGED <<clock_vars, request_vars, cache_history>>

\* session.completed_at = utcnow(); status; the summary; db.commit();
\* redis_client.delete(cache_key); `raises`: the delete raises
CompleteCommit(t, raises) ==
    /\ sm_pc[t] = "complete_commit"
    /\ LET completed == [Get(db_session) EXCEPT !.duration_seconds = sm_duration[t],
                                                 !.completed_at = Some(now),
                                                 !.status = "completed"]
       IN /\ db_session' = Some(completed)
          /\ IF raises
             THEN /\ sm_ret' = [sm_ret EXCEPT ![t] =
                                   SessionManagerError("Failed to complete session")]
                  /\ UNCHANGED redis
             ELSE /\ redis' = [redis EXCEPT ![SessionKey] = None]
                  /\ sm_ret' = [sm_ret EXCEPT ![t] = SessionValue(None, <<>>, Some(completed))]
    /\ cache_errors' = [cache_errors EXCEPT ![t] = <<raises>>]
    /\ sm_pc' = [sm_pc EXCEPT ![t] = "done"]
    /\ UNCHANGED <<db_messages, sm_req, sm_count, sm_message, sm_cached, sm_rows,
                   sm_duration, sm_absent, write_failed, cache_from>>
    /\ UNCHANGED <<clock_vars, request_vars, cache_history>>

\* The call is over; its caller may make the next one
SessionFinish(t) ==
    /\ sm_pc[t] = "done"
    /\ sm_pc' = [sm_pc EXCEPT ![t] = "idle"]
    /\ sm_req' = [sm_req EXCEPT ![t] = NoCall]
    /\ sm_count' = [sm_count EXCEPT ![t] = 0]
    /\ sm_message' = [sm_message EXCEPT ![t] = None]
    /\ sm_cached' = [sm_cached EXCEPT ![t] = <<>>]
    /\ sm_rows' = [sm_rows EXCEPT ![t] = <<>>]
    /\ sm_duration' = [sm_duration EXCEPT ![t] = 0]
    /\ sm_ret' = [sm_ret EXCEPT ![t] = NoResult]
    /\ sm_absent' = [sm_absent EXCEPT ![t] = FALSE]
    /\ cache_errors' = [cache_errors EXCEPT ![t] = <<>>]
    /\ UNCHANGED <<session_db, redis, write_failed, cache_from>>
    /\ UNCHANGED <<clock_vars, request_vars, cache_history>>

(* ------------------------------------------------------------------ *)
(* Specifications                                                      *)
(* ------------------------------------------------------------------ *)
GeneratorCall(t) ==
    \/ BreakerCall(t)
    \/ \E text \in GeneratorTexts : AttemptSucceeds(t, text)
    \/ AttemptFails(t)
    \/ OnSuccess(t)
    \/ OnFailure(t)
    \/ OnFailureStore(t)
    \/ Finish(t)

Coordinator(t) ==
    \/ \E m \in Messages, force \in BOOLEAN : BeginHybrid(t, m, force)
    \/ QueryComputationalRaises(t)
    \/ \E res \in WolframResponses : QueryComputationalReturns(t, res)
    \/ StepByStepRaises(t)
    \/ \E steps \in StepLists : StepByStepFound(t, steps)
    \/ StepByStepBasicRaises(t)
    \/ \E res \in BasicResponses : StepByStepBasicReturns(t, res)

\* Coordinator requests, one at a time and back to back.
Next ==
    \/ Coordinator(SerialCaller)
    \/ GeneratorCall(SerialCaller)

Spec == Init /\ [][Next]_vars

\* Cached generator requests, one at a time, with the clock moving.
NextGenerator ==
    \/ \E c \in Concepts : BeginExplain(SerialCaller, c)
    \/ GeneratorCall(SerialCaller)
    \/ \E d \in TickSteps : Tick(d)

SpecGenerator == Init /\ [][NextGenerator]_vars

\* Several callers of the breaker-wrapped generator request at once.
NextConcurrent ==
    \/ \E t \in Threads :
        \/ \E c \in UnclearConcepts : BeginAlternative(t, c)
        \/ GeneratorCall(t)
    \/ Tick(recovery_timeout)

SpecConcurrent == Init /\ [][NextConcurrent]_vars

\* CacheService's generic operations, one at a time, with the clock moving
\* between two of them: to the expiry of an entry set with a ttl of CacheTtls, or
\* past the expiry of one set with DEFAULT_TTL.
NextCache ==
    \/ \E k \in GenericKeys, raises \in BOOLEAN : CacheServiceGet(k, raises)
    \/ \E k \in GenericKeys, v \in CacheValues, ttl \in CacheTtls, raises \in BOOLEAN :
          CacheServiceSet(k, v, ttl, raises)
    \/ \E k \in GenericKeys, raises \in BOOLEAN : CacheServiceDelete(k, raises)
    \/ \E pattern \in Patterns, raises \in BOOLEAN : CacheServiceDeletePattern(pattern, raises)
    \/ \E d \in {recovery_timeout, AI_RESPONSE_TTL} : Tick(d)

SpecCache == Init /\ [][NextCache]_vars

\* How far the clock moves between two statements of a session call: over a
\* second boundary, or past the expiry of the cache entry
SessionTickSteps == {1, cache_ttl}

SessionCall(t) ==
    \/ \E user_id \in UserIds, raises \in BOOLEAN : CreateSession(t, user_id, raises)
    \/ \E role \in Roles : AddMessageBegin(t, role)
    \/ AddMessageCommit(t)
    \/ \E raises \in BOOLEAN : AddMessageReadCache(t, raises)
    \/ \E raises \in BOOLEAN : AddMessageWriteCache(t, raises)
    \/ \E max_messages \in ContextSizes, raises \in BOOLEAN :
          GetContextRead(t, max_messages, raises)
    \/ GetContextQuery(t)
    \/ \E raises \in BOOLEAN : GetContextStore(t, raises)
    \/ CompleteBegin(t)
    \/ \E raises \in BOOLEAN : CompleteCommit(t, raises)
    \/ SessionFinish(t)

\* SessionManager calls on one session, one at a time, with the clock moving
\* and the cache failing at will.
NextSession ==
    \/ SessionCall(SerialCaller)
    \/ \E d \in SessionTickSteps : Tick(d)

SpecSession == Init /\ [][NextSession]_vars

\* A SessionManager call of caller t with the cache working
SessionCallCached(t) ==
    \/ \E user_id \in Users : CreateSession(t, user_id, FALSE)
    \/ \E role \in ValidRoles \cap Roles : AddMessageBegin(t, role)
    \/ AddMessageCommit(t)
    \/ AddMessageReadCache(t, FALSE)
    \/ AddMessageWriteCache(t, FALSE)
    \/ \E max_messages \in ContextSizes : GetContextRead(t, max_messages, FALSE)
    \/ GetContextQuery(t)
    \/ GetContextStore(t, FALSE)
    \/ CompleteBegin(t)
    \/ CompleteCommit(t, FALSE)
    \/ SessionFinish(t)

\* Several callers use the same session at once, the cache working.
SpecSessionConcurrent == Init /\ [][\E t \in Threads : SessionCallCached(t)]_vars

\* SessionManager calls on one session, one at a time, the cache working
\* and its entry expiring.
SpecSessionCached ==
    Init /\ [][\/ SessionCallCached(SerialCaller)
               \/ \E d \in SessionTickSteps : Tick(d)]_vars

(* ------------------------------------------------------------------ *)
(* Properties                                                          *)
(* ------------------------------------------------------------------ *)
Finished(t) == pc[t] = "done"
GeneratorFailed(t) == ret[t].kind \in {"GeminiServiceError", "CircuitBreakerOpenError"}
GeneratorSucceeded(t) == ret[t].kind = "value"
HybridDone(t) == Finished(t) /\ req[t].kind = "hybrid"
Classified(t) == should_use_wolfram(req[t].message)

\* Less than recovery_timeout has passed since the last failing call.
BeforeRecovery == IsSome(last_failed_at) /\ now - Get(last_failed_at) < recovery_timeout

\* Between calls, with failure_threshold or more failing calls in a row
\* behind it, the breaker is OPEN.
OpenAfterThreshold ==
    (pc[SerialCaller] \in {"idle", "call"} /\ consecutive_failures >= failure_threshold)
        => state = "open"

\* A call made then, before recovery_timeout has passed since the last
\* failure, ends at once with the breaker-open error and no upstream attempt.
RejectsBeforeTimeout ==
    (/\ pc[SerialCaller] = "call"
     /\ consecutive_failures >= failure_threshold
     /\ BeforeRecovery
     /\ pc'[SerialCaller] # "call")
        => /\ pc'[SerialCaller] = "done"
           /\ ret'[SerialCaller] = OpenError
           /\ upstream_calls'[SerialCaller] = 0

\* C1: a breaker that starts CLOSED is OPEN after failure_threshold or more
\* consecutive failing calls, and the next call before recovery_timeout has
\* elapsed since the last failure raises the breaker-open error without
\* invoking the wrapped function.
C1_OpensAfterThreshold == [](OpenAfterThreshold) /\ [][RejectsBeforeTimeout]_vars

\* A call rejected by the open breaker after failure_threshold failures.
C1_Witness ==
    /\ Finished(SerialCaller)
    /\ ret[SerialCaller] = OpenError
    /\ upstream_calls[SerialCaller] = 0
    /\ consecutive_failures >= failure_threshold
    /\ BeforeRecovery

\* The caller's wrapped function is running, or its outcome is being
\* recorded, and the breaker was OPEN or HALF_OPEN when it was let in.
InTrial(t) ==
    /\ pc[t] \in {"attempt", "on_success", "on_failure", "on_failure_store"}
    /\ admitted[t] \in {"open", "half_open"}

\* C2: once the breaker is OPEN and recovery_timeout has elapsed, exactly
\* one of the concurrent callers has its wrapped function invoked as the
\* trial call; no other caller is let through while the trial is in flight.
C2_OneTrialAtATime ==
    \A t, u \in Threads : (t # u /\ InTrial(t)) => ~InTrial(u)

\* C3: a generator request with a cache key prefix whose key has a live
\* cache entry returns the cached value with zero upstream attempts in
\* every breaker state, OPEN before recovery_timeout included.
C3_CachedValueReturned ==
    \A t \in Threads :
        (Finished(t) /\ IsSome(cached_at_call[t]))
            => /\ ret[t] = Value(Get(cached_at_call[t]))
               /\ upstream_calls[t] = 0

\* C4: the computational adapter has a breaker of its own: after
\* failure_threshold consecutive failed query_computational calls, the
\* next one (the clock has not moved) makes no upstream attempt.
C4_ComputationalBreakerRejects ==
    [][wolfram_failures >= failure_threshold
          => \A t \in Threads : wolfram_calls'[t] <= wolfram_calls[t]]_vars

\* C5: the retry loop with max_retries = M makes exactly k+1 upstream
\* attempts when the upstream fails k < M times and then succeeds, and
\* returns that value; when every attempt fails it makes exactly M
\* attempts and raises the terminal failure.
C5_RetryAttempts ==
    \A t \in Threads :
        /\ (GeneratorSucceeded(t) /\ cached_at_call[t] = None)
              => /\ failed_attempts[t] < max_retries
                 /\ upstream_calls[t] = failed_attempts[t] + 1
                 /\ attempt[t] = failed_attempts[t]
        /\ ret[t] = RetriesExhausted
              => /\ failed_attempts[t] = max_retries
                 /\ upstream_calls[t] = max_retries
        /\ upstream_calls[t] <= max_retries

\* Two failures, then a success on the last attempt the loop allows.
C5_Witness ==
    /\ Finished(SerialCaller)
    /\ GeneratorSucceeded(SerialCaller)
    /\ failed_attempts[SerialCaller] = max_retries - 1
    /\ upstream_calls[SerialCaller] = max_retries

\* C6: when the generator call fails (retries exhausted or breaker open)
\* in any path of generate_hybrid_response, the response is the fixed
\* apology with source = error and has_wolfram_data = false.
C6_GeneratorFailureIsError ==
    \A t \in Threads :
        (HybridDone(t) /\ GeneratorFailed(t))
            => /\ Get(response[t]).source = "error"
               /\ Get(response[t]).has_wolfram_data = FALSE
               /\ Get(response[t]).message \in {GeneralApology, ComputationalApology}

\* query_computational returned a successful result for this request.
WolframSucceeded(t) == IsSome(wolfram_result[t]) /\ Get(wolfram_result[t]).success
\* query_computational raised, or returned a result marked unsuccessful.
WolframFailed(t) ==
    /\ wolfram_calls[t] > 0
    /\ wolfram_result[t] = None \/ ~Get(wolfram_result[t]).success

\* C7: a classified query, a successful computational result with a
\* non-empty result text, and a successful generator call give
\* source = hybrid, has_wolfram_data = true, a non-empty computational_answer
\* equal to the result text, and a non-empty message from the generator.
C7_HybridMerge ==
    \A t \in Threads :
        (/\ HybridDone(t) /\ Classified(t) /\ WolframSucceeded(t)
         /\ IsSome(Get(wolfram_result[t]).result_text)
         /\ Get(Get(wolfram_result[t]).result_text) # ""
         /\ GeneratorSucceeded(t))
            => /\ Get(response[t]).source = "hybrid"
               /\ Get(response[t]).has_wolfram_data = TRUE
               /\ Get(response[t]).computational_answer = Get(wolfram_result[t]).result_text
               /\ Get(response[t]).message = Strip(ret[t].text)
               /\ Get(response[t]).message # <<>>

C9_EmptyResultFallsBack ==
    \A t \in Threads :
        (/\ HybridDone(t) /\ Classified(t) /\ WolframSucceeded(t)
         /\ Get(wolfram_result[t]).result_text = None
         /\ Get(wolfram_result[t]).images = <<>>
         /\ GeneratorSucceeded(t))
            => /\ Get(response[t]).source = "gemini"
               /\ Get(response[t]).has_wolfram_data = FALSE
               /\ prompt[t] = PlainPrompt(req[t].message)

\* C10: a hybrid response carries at most 2 images, the first ones of the
\* computational result in upstream order.
C10_AtMostTwoImages ==
    \A t \in Threads :
        (HybridDone(t) /\ Get(response[t]).source = "hybrid")
            => /\ Len(Get(response[t]).images) <= 2
               /\ \A i \in 1..Len(Get(response[t]).images) :
                      Get(response[t]).images[i] = Get(wolfram_result[t]).images[i]

\* A request classified general, the force flag not set.
GeneralRequest(r) ==
    r.kind = "hybrid" /\ detect_query_type(r.message) = "general" /\ ~r.force_wolfram

\* Such a request never reaches the computational adapter, and its response
\* carries no computational data; when the generator call succeeded the
\* source is "gemini" and the message is the generator's text.
GeneralIsGeneratorOnly ==
    \A t \in Threads :
        GeneralRequest(req[t])
            => /\ wolfram_calls[t] = 0
               /\ pc[t] \notin {"wolfram", "steps"}
               /\ Finished(t)
                     => /\ ret[t] # NoRet
                        /\ IsSome(response[t])
                        /\ Get(response[t]).has_wolfram_data = FALSE
                        /\ Get(response[t]).wolfram_result = None
                        /\ Get(response[t]).images = <<>>
                        /\ GeneratorSucceeded(t)
                              => /\ Get(response[t]).source = "gemini"
                                 /\ Get(response[t]).message = Strip(ret[t].text)

\* The generator adapter is entered when the request begins and not again.
OneGeneratorCall ==
    \A t \in Threads :
        (GeneralRequest(req'[t]) /\ pc'[t] = "call" /\ pc[t] # "call") => pc[t] = "idle"

\* C11: a request classified general (force flag not set) never invokes
\* the computational adapter, invokes the generator adapter exactly once,
\* and is answered with source "gemini" and has_wolfram_data = false.
C11_GeneralRouting == [](GeneralIsGeneratorOnly) /\ [][OneGeneratorCall]_vars

\* A general request answered by the generator after a failed attempt.
C11_Witness ==
    /\ Finished(SerialCaller)
    /\ GeneralRequest(req[SerialCaller])
    /\ GeneratorSucceeded(SerialCaller)
    /\ failed_attempts[SerialCaller] > 0
    /\ Get(response[SerialCaller]).source = "gemini"

\* C12: generate_hybrid_response always returns a HybridResponse whose
\* source is "gemini", "hybrid" or "error", whatever the two upstreams do:
\* no exception leaves it.
C12_AlwaysResponds ==
    \A t \in Threads :
        HybridDone(t)
            => /\ IsSome(response[t])
               /\ Get(response[t]).source \in {"gemini", "hybrid", "error"}

\* The computational call raised and the open breaker rejected the
\* generator call; a response is returned all the same.
C12_Witness ==
    /\ HybridDone(SerialCaller)
    /\ wolfram_calls[SerialCaller] > 0
    /\ wolfram_result[SerialCaller] = None
    /\ ret[SerialCaller] = OpenError
    /\ IsSome(response[SerialCaller])

\* C13: set(k, v, ttl) followed by get(k), with no write or delete of k in
\* between, returns v while less than ttl seconds have passed, for every
\* JSON-serializable v and every ttl, and absent once ttl seconds or more
\* have passed.
C13_SetThenGet ==
    (cache_op.op = "get" /\ ~cache_op.failed /\ IsSome(last_set[cache_op.key]))
        => LET s == Get(last_set[cache_op.key]) IN
           IF cache_op.at - s.at < s.ttl
           THEN cache_op.result = Some(s.value)
           ELSE cache_op.result = None

\* What each operation answers when it fails
DefaultOf(op) ==
    IF op = "get" THEN Returns(None)
    ELSE IF op = "delete_pattern" THEN Returns(0)
    ELSE Returns(FALSE)

\* C14: every CacheService operation is best-effort: when the store or the
\* (de)serialization fails, get returns absent, set and delete return
\* false, delete_pattern returns 0, and none of them raises.
C14_BestEffort ==
    cache_op.op # "none"
        => /\ ~cache_op.raised
           /\ cache_op.failed => cache_op.result = DefaultOf(cache_op.op).result

\* A set of a value json cannot encode has answered false.
C14_Witness ==
    /\ cache_op.op = "set"
    /\ cache_op.failed
    /\ ~cache_op.raised
    /\ cache_op.result = FALSE

(* ------------------------------------------------------------------ *)
(* Properties of the conversation store                                 *)
(* ------------------------------------------------------------------ *)
SessionDone(t, op) == sm_pc[t] = "done" /\ sm_req[t].op = op
Succeeded(t) == sm_ret[t].kind = "value"
\* Every cache operation of the call raised
CacheUnavailable(t) ==
    /\ cache_errors[t] # <<>>
    /\ \A i \in 1..Len(cache_errors[t]) : cache_errors[t][i]

\* The most recent min(k, n) of the k durable messages, oldest first
RecentDurable(n) ==
    LET k == Len(db_messages)
        m == Min(k, n)
    IN [i \in 1..m |-> db_messages[k - m + i]]

\* C15: with every cache operation failing, add_message returns the
\* created message and get_session_context returns the most recent N
\* durable messages; neither call fails.
C15_CacheDownIsMiss ==
    \A t \in Threads :
        /\ (SessionDone(t, "add_message") /\ CacheUnavailable(t))
              => (Succeeded(t) /\ sm_ret[t].message = sm_message[t])
        /\ (SessionDone(t, "get_session_context") /\ CacheUnavailable(t))
              => /\ Succeeded(t)
                 /\ sm_ret[t].context =
                        ContextEntries(RecentDurable(sm_req[t].max_messages))

\* The call committed its message and then its cache write raised
CacheWriteFailed(t) ==
    /\ SessionDone(t, "add_message")
    /\ IsSome(sm_message[t])
    /\ ~Succeeded(t)

InContext(id, context) ==
    \E i \in 1..Len(context) : context[i].content = id

\* C16: when the cache write of add_message fails after the commit, the
\* message and the incremented message_count stay committed, and the next
\* get_session_context (asking for at least as many messages as the
\* session has) returns a context that contains the message.
C16_FailedWriteRebuilds ==
    \A t \in Threads :
        /\ CacheWriteFailed(t)
              => /\ \E i \in 1..Len(db_messages) : db_messages[i] = Get(sm_message[t])
                 /\ Get(db_session).message_count = sm_count[t] + 1
        /\ (/\ SessionDone(t, "get_session_context")
            /\ Succeeded(t)
            /\ sm_req[t].max_messages >= Len(db_messages))
              => \A id \in sm_ret[t].owed : InContext(id, sm_ret[t].context)

\* The list the session's cache entry holds, when one is live
CachedList ==
    IF RedisGet(SessionKey) = None THEN None
    ELSE Some(json_loads(Get(RedisGet(SessionKey))))

\* get_session_context found no cached messages, read the rows and returned
Rebuilt(t) ==
    /\ SessionDone(t, "get_session_context")
    /\ Succeeded(t)
    /\ sm_cached[t] = <<>>

RebuildReturns(t) ==
    (sm_pc[t] = "get_store" /\ Rebuilt(t)')
        => /\ sm_ret'[t].context =
                  ContextEntries(RecentDurable(sm_req[t].max_messages))
           /\ CachedList' =
                  Some(MessageDicts(RecentDurable(sm_req[t].max_messages)))

\* C17: get_session_context(session, N) that finds the cache entry empty
\* or absent while the session has k durable messages returns exactly the
\* most recent min(k, N) of them, oldest first, and leaves the cache entry
\* holding exactly those messages in that order.
C17_RebuildFromDurable == [][\A t \in Threads : RebuildReturns(t)]_vars

\* A rebuild that had to cut the durable sequence down to N = 2
C17_Witness ==
    \E t \in Threads :
        /\ Rebuilt(t)
        /\ sm_req[t].max_messages = 2
        /\ Len(db_messages) > 2
        /\ Len(sm_ret[t].context) = 2
        /\ CachedList = Some(MessageDicts(RecentDurable(2)))

AddInProgress(t) == sm_pc[t] \in {"add_commit", "add_read", "add_write"}

\* The durable messages from the one with this id onwards, as cache entries
DurableFrom(id) ==
    MessageDicts(SubSeq(db_messages, id, Len(db_messages)))

\* C18: whenever no add_message is in progress, the cached message list of
\* the session, when present, is in chronological order and has no gap:
\* it holds every durable message from its oldest entry onwards.
C18_CacheGapFree ==
    ((\A t \in Threads : ~AddInProgress(t)) /\ IsSome(CachedList))
        => LET list == Get(CachedList) IN
           list # <<>> => list = DurableFrom(list[1].id)

Quiescent == \A t \in Threads : sm_pc[t] \in {"idle", "done"}

\* The cache entries of the messages committed after the first n
Since(list, n) == SelectSeq(list, LAMBDA entry : entry.id > n)

\* C19: however concurrent add_message calls on the session interleave,
\* once all calls have returned the cached list holds every message
\* committed since the cache entry was last created or rebuilt, in
\* durable order.
C19_NoLostAppend ==
    (Quiescent /\ IsSome(CachedList))
        => Since(Get(CachedList), cache_from) = DurableFrom(cache_from + 1)

\* C20: when complete_session succeeds on an active session, the stored
\* duration_seconds is the stored completed_at minus started_at, in
\* whole seconds.
C20_DurationIsCompletedMinusStarted ==
    \A t \in Threads :
        (SessionDone(t, "complete_session") /\ Succeeded(t))
            => LET session == Get(db_session) IN
               session.duration_seconds =
                   Get(session.completed_at) - session.started_at

Active == IsSome(db_session) /\ Get(db_session).status = "active"
Completed == IsSome(db_session) /\ Get(db_session).status = "completed"

\* A call that starts on a completed session ends at once with an error
\* and leaves the rows and the cache entry as they are
RefusedWhenCompleted(t) ==
    (/\ Completed
     /\ sm_pc[t] = "idle"
     /\ sm_pc'[t] # "idle"
     /\ sm_req'[t].op \in {"complete_session", "add_message"})
        => /\ sm_pc'[t] = "done"
           /\ sm_ret'[t].kind = "SessionManagerError"
           /\ UNCHANGED <<db_session, db_messages, redis>>

\* complete_session writes status, duration_seconds and completed_at
CompletionWritten(t) == sm_pc[t] = "complete_commit" /\ sm_pc'[t] = "done"

\* C21: a session is completed at most once: complete_session or
\* add_message on a session that is not active returns an error and
\* changes nothing, and status, duration_seconds and completed_at are
\* written only to an active session, hence exactly once, also when two
\* complete_session calls race.
C21_CompletedOnce ==
    [][\A t \in Threads :
          /\ RefusedWhenCompleted(t)
          /\ CompletionWritten(t) => Active]_vars

(* ------------------------------------------------------------------ *)
(* Properties of the breaker, continued                                 *)
(* ------------------------------------------------------------------ *)
\* The caller found the breaker OPEN with recovery_timeout elapsed: its
\* call is the trial call
IsTrial(t) == admitted[t] = "open"

\* The trial call's outcome has been recorded and the call is over
TrialDecides(t) ==
    (IsTrial(t) /\ pc[t] \in {"on_success", "on_failure_store"} /\ pc'[t] = "done")
        => IF ret'[t].kind = "value"
           THEN state' = "closed" /\ failure_count' = 0
           ELSE state' = "open" /\ last_failure_time' = Some(now')

\* A call that arrives less than recovery_timeout after the recorded
\* failure is rejected: it is no trial
NoTrialBeforeTimeout(t) ==
    (/\ pc[t] = "call"
     /\ pc'[t] # "call"
     /\ state = "open"
     /\ IsSome(last_failure_time)
     /\ now - Get(last_failure_time) < recovery_timeout)
        => /\ ret'[t] = OpenError
           /\ state' = "open"
           /\ upstream_calls'[t] = 0

\* C22: the outcome of the HALF_OPEN trial call decides the next state:
\* success closes the breaker with failure_count = 0; failure opens it
\* again with last_failure_time set to the time of that failure, and no
\* further trial is let through until recovery_timeout has passed again.
C22_TrialDecides ==
    [][\A t \in Threads : TrialDecides(t) /\ NoTrialBeforeTimeout(t)]_vars

\* A trial call that failed and reopened the breaker, and a later call
\* that was rejected before the new timeout had passed
C22_Witness ==
    /\ Finished(SerialCaller)
    /\ ret[SerialCaller] = OpenError
    /\ state = "open"
    /\ failure_count > failure_threshold
    /\ now - Get(last_failure_time) < recovery_timeout

\* Between calls failure_count is the number of requests that exhausted
\* their retries since the last success, and the breaker is OPEN only
\* with failure_threshold of them behind it
CountsExhaustedRequests ==
    pc[SerialCaller] \in {"idle", "call"}
        => /\ Saturate(failure_count) = consecutive_failures
           /\ state = "open" => consecutive_failures >= failure_threshold

\* Recording the failure of a request that made max_retries attempts
\* raises failure_count by one
OneFailurePerRequest(t) ==
    (pc[t] = "on_failure_store" /\ pc'[t] = "done")
        => /\ failed_attempts[t] = max_retries
           /\ failure_count' = failure_count + 1

\* C23: a generator request that exhausts its max_retries attempts counts
\* as one breaker failure, not one per attempt, so the breaker opens only
\* after failure_threshold exhausted requests with no success in between.
C23_OneFailurePerExhaustedRequest ==
    [](CountsExhaustedRequests) /\ [][\A t \in Threads : OneFailurePerRequest(t)]_vars

\* The request whose failure opened the breaker
C23_Witness ==
    /\ Finished(SerialCaller)
    /\ ret[SerialCaller] = RetriesExhausted
    /\ failed_attempts[SerialCaller] = max_retries
    /\ failure_count = failure_threshold
    /\ state = "open"

(* ------------------------------------------------------------------ *)
(* Properties of the conversation store, continued                      *)
(* ------------------------------------------------------------------ *)
Committed(entry) ==
    \E i \in 1..Len(db_messages) : MessageDict(db_messages[i]) = entry

\* The list stored under the session's key, expired or not
StoredList ==
    IF redis[SessionKey] = None THEN <<>> ELSE json_loads(Get(redis[SessionKey]).value)

EveryCachedMessageCommitted ==
    \A i \in 1..Len(StoredList) : Committed(StoredList[i])

\* add_message writes the cache entry only with its message row committed
CommitPrecedesAppend(t) ==
    (sm_pc[t] = "add_write" /\ sm_pc'[t] = "done")
        => Committed(MessageDict(Get(sm_message[t])))

\* C24: in every add_message the durable commit precedes the cache
\* append, so under any interleaving of add_message and
\* get_session_context every message in the session's cached list is
\* already committed in the durable store.
C24_CachedIsCommitted ==
    [](EveryCachedMessageCommitted) /\ [][\A t \in Threads : CommitPrecedesAppend(t)]_vars

\* Two add_message calls interleaved: both committed before either wrote
\* the cache, and the cached list holds a committed message
C24_Witness ==
    /\ Len(db_messages) >= 2
    /\ StoredList # <<>>
    /\ \E t, u \in Threads :
          /\ t # u
          /\ SessionDone(t, "add_message")
          /\ sm_pc[u] = "add_write"

(* ------------------------------------------------------------------ *)
(* Properties of the breaker under concurrent callers                   *)
(* ------------------------------------------------------------------ *)
\* A failure is recorded and no success has reset failure_count since
\* this call read it: the count rises by one
NoLostIncrement(t) ==
    (/\ pc[t] = "on_failure_store"
     /\ pc'[t] = "done"
     /\ failure_count >= fc_read[t])
        => failure_count' = failure_count + 1

\* C25: breaker updates are serialized: when K calls through the breaker
\* fail concurrently with no success in between, failure_count rises by
\* exactly K, no increment is lost.
C25_NoLostIncrement == [][\A t \in Threads : NoLostIncrement(t)]_vars

\* The request of caller t was answered from the cache
AnsweredFromCache(t) == IsSome(cached_at_call[t]) /\ upstream_calls[t] = 0

\* The breaker is set to CLOSED or its failure_count is reset
BreakerReset ==
    \/ state' = "closed" /\ state # "closed"
    \/ failure_count' = 0 /\ failure_count # 0

\* The outcome of caller t's request is recorded
Recorded(t) == pc[t] \in {"on_success", "on_failure_store"} /\ pc'[t] = "done"

\* C26: the generator's breaker moves to CLOSED and resets failure_count
\* only as the result of an upstream attempt that succeeded; a request
\* answered from the cache never changes the breaker's state,
\* failure_count or last_failure_time.
C26_CacheLeavesBreaker ==
    [][/\ BreakerReset =>
            \E t \in Threads : Recorded(t) /\ upstream_calls[t] > 0
       /\ \A t \in Threads :
            (Recorded(t) /\ AnsweredFromCache(t))
                => UNCHANGED <<state, failure_count, last_failure_time>>]_vars

\* Caller t was let in while the breaker was CLOSED and its success is
\* recorded when the breaker has opened in the meantime
StaleSuccess(t) ==
    /\ pc[t] = "on_success"
    /\ pc'[t] = "done"
    /\ admitted[t] = "closed"
    /\ state = "open"

\* C27: the breaker leaves OPEN only through the timed transition to
\* HALF_OPEN: a call admitted while the breaker was CLOSED that completes
\* successfully after the breaker has opened neither sets the state back
\* to CLOSED nor resets failure_count.
C27_StaleSuccessKeepsOpen ==
    [][\A t \in Threads :
          StaleSuccess(t) => (state' = "open" /\ failure_count' = failure_count)]_vars

(* ------------------------------------------------------------------ *)
(* Properties of the conversation store, serial and the cache working   *)
(* ------------------------------------------------------------------ *)
\* C28: after any sequence of add_message, get_session_context (with any
\* max_messages of 1 or more) and cache-entry expiry on an active session,
\* get_session_context(N) returns exactly the most recent min(N, total)
\* messages of the durable sequence, in chronological order.
C28_ContextIsRecentDurable ==
    \A t \in Threads :
        (/\ SessionDone(t, "get_session_context")
         /\ Succeeded(t)
         /\ Active
         /\ sm_req[t].max_messages >= 1)
            => sm_ret[t].context =
                   ContextEntries(RecentDurable(sm_req[t].max_messages))

\* C29: whenever no add_message is in progress, the session's
\* message_count equals the number of messages stored durably for it,
\* also after add_message calls on the session have run concurrently.
C29_CountMatchesMessages ==
    ((\A t \in Threads : ~AddInProgress(t)) /\ IsSome(db_session))
        => Get(db_session).message_count = Len(db_messages)

\* ---- Properties of the breaker, rejected calls ----

\* The breaker is OPEN, it has recorded the time of its last failure and the
\* caller is at the gate: no call is in flight.
OpenAtGate(t) ==
    /\ pc[t] = "call"
    /\ pc'[t] # "call"
    /\ state = "open"
    /\ IsSome(last_failure_time)

\* A call rejected before recovery_timeout has passed since the last failure
\* changes nothing in the breaker.
RejectedLeavesBreaker(t) ==
    (OpenAtGate(t) /\ now - Get(last_failure_time) < recovery_timeout)
        => /\ ret'[t] = OpenError
           /\ pc'[t] = "done"
           /\ UNCHANGED <<state, failure_count, last_failure_time>>

\* A call arriving at or after recovery_timeout since the last failure is the
\* trial call: the breaker goes HALF_OPEN and the wrapped function is entered.
AdmittedAfterTimeout(t) ==
    (OpenAtGate(t) /\ now - Get(last_failure_time) >= recovery_timeout)
        => /\ admitted'[t] = "open"
           /\ state' = "half_open"
           /\ pc'[t] \in {"attempt", "on_success"}
           /\ UNCHANGED <<failure_count, last_failure_time>>

\* C30: rejected calls never postpone recovery. With the breaker OPEN, its
\* last failure at time t and no call in flight, a call rejected before
\* t + recovery_timeout leaves state, failure_count and last_failure_time
\* unchanged, and the first call at or after t + recovery_timeout is admitted
\* as the trial call, however many calls were rejected in between.
C30_RejectionsDoNotPostpone ==
    [][\A t \in Threads : RejectedLeavesBreaker(t) /\ AdmittedAfterTimeout(t)]_vars

\* The trial call is admitted after a call was rejected since the last
\* failure.
C30_Witness ==
    /\ pc[SerialCaller] \in {"attempt", "on_success"}
    /\ admitted[SerialCaller] = "open"
    /\ state = "half_open"
    /\ rejected_since
    /\ now - Get(last_failure_time) = recovery_timeout

====
